---- MODULE Spec2Model ----
(***************************************************************************)
(* A model of PyAbel's two-point Abel deconvolution (abel/two_point.py),   *)
(* the image circularization tools (abel/tools/circularize.py) and the     *)
(* AbelTiming benchmark registry (abel/benchmark.py).                      *)
(*                                                                         *)
(* Every public function is one action: the interpreter is idle, a call    *)
(* runs the whole function on inputs drawn from small sets, and the state  *)
(* then holds the arguments as passed (args), the caller's arrays as the   *)
(* call left them (caller), the value returned or the exception raised     *)
(* (ret) and the array work the call performed, in order (work).           *)
(*                                                                         *)
(* Real numbers: the entries of the operator D are kept in thousandths     *)
(* (fixed point); ratios of radial coordinates, scale factors and          *)
(* resampling coordinates are exact fractions, with numpy's nan and inf    *)
(* for divisions by zero.                                                  *)
(***************************************************************************)
EXTENDS Integers, Sequences, FiniteSets, TLC

VARIABLES op, args, caller, ret, work

vars == <<op, args, caller, ret, work>>

-----------------------------------------------------------------------------
(* Bounds of the model *)

MaxRows == 2
MaxCols == 3
MaxAng == 4
MaxSlices == 3
MaxSide == 3
MaxSel == 2
MaxSizes == 2

-----------------------------------------------------------------------------
(* Generic helpers *)

Min(a, b) == IF a < b THEN a ELSE b
Max(a, b) == IF a > b THEN a ELSE b
Abs(a) == IF a < 0 THEN -a ELSE a

RECURSIVE SumSeq(_)
SumSeq(s) == IF s = <<>> THEN 0 ELSE Head(s) + SumSeq(Tail(s))

RECURSIVE Gcd(_, _)
Gcd(a, b) == IF b = 0 THEN a ELSE Gcd(b, a % b)

Range(s) == {s[k] : k \in DOMAIN s}

\* s[1:] of Python: the empty sequence stays empty
Drop1(s) == IF s = <<>> THEN <<>> ELSE Tail(s)

\* the elements of a finite set of index pairs in row-major (C) order
RECURSIVE RowMajor(_)
RowMajor(S) ==
    IF S = {} THEN <<>>
    ELSE LET m == CHOOSE p \in S : \A q \in S :
                      \/ p[1] < q[1]
                      \/ (p[1] = q[1] /\ p[2] <= q[2])
         IN  <<m>> \o RowMajor(S \ {m})

-----------------------------------------------------------------------------
(* numpy arrays: the number of dimensions and the data as a sequence of   *)
(* rows; a 1-D array holds its samples as its single row                   *)

Array1(row) == [ndim |-> 1, data |-> <<row>>]
Array2(rows) == [ndim |-> 2, data |-> rows]
NoArray == [ndim |-> 0, data |-> <<>>]

shape(a) ==
    IF a.ndim = 1 THEN <<Len(a.data[1])>>
    ELSE IF a.ndim = 2 THEN <<Len(a.data), Len(a.data[1])>>
    ELSE <<>>

atleast_2d(a) == IF a.ndim = 1 THEN Array2(a.data) ELSE a

Transpose(rows) ==
    [j \in 1..Len(rows[1]) |-> [i \in 1..Len(rows) |-> rows[i][j]]]

\* a.T of numpy: a 1-D array is its own transpose
T(a) == IF a.ndim = 2 THEN Array2(Transpose(a.data)) ELSE a

-----------------------------------------------------------------------------
(* abel/two_point.py *)

\* 1000 * J(i, j), Eq. (9), rounded, for 0 <= i <= j, (i, j) # (0, 0)
JTable ==
    (<<0,1>> :> 221) @@ (<<0,2>> :> 129) @@ (<<0,3>> :> 92) @@ (<<0,4>> :> 71)
    @@ (<<0,5>> :> 58) @@ (<<0,6>> :> 49)
    @@ (<<1,1>> :> 419) @@ (<<1,2>> :> 142) @@ (<<1,3>> :> 96) @@ (<<1,4>> :> 73)
    @@ (<<1,5>> :> 59) @@ (<<1,6>> :> 50)
    @@ (<<2,2>> :> 306) @@ (<<2,3>> :> 113) @@ (<<2,4>> :> 80) @@ (<<2,5>> :> 62)
    @@ (<<2,6>> :> 52)
    @@ (<<3,3>> :> 253) @@ (<<3,4>> :> 97) @@ (<<3,5>> :> 70) @@ (<<3,6>> :> 55)
    @@ (<<4,4>> :> 221) @@ (<<4,5>> :> 86) @@ (<<4,6>> :> 63)
    @@ (<<5,5>> :> 198) @@ (<<5,6>> :> 78)
    @@ (<<6,6>> :> 181)

J(i, j) == JTable[<<i, j>>]

\* 1000 * 2/pi
TwoOverPi == 637

Cells(cols) == (0..(cols - 1)) \X (0..(cols - 1))

\* np.diag_indices(cols), as (i, j) pairs in order
diag_indices(cols) == [k \in 1..cols |-> <<k - 1, k - 1>>]

\* np.triu_indices(cols, k=1), as (i, j) pairs in row-major order
triu_indices(cols) == RowMajor({c \in Cells(cols) : c[2] > c[1]})

\* the cells the diagonal assignment writes: the diagonal without (0, 0)
DiagCells(cols) == Range(Drop1(diag_indices(cols)))

\* the cells the upper-triangle assignment writes: without the first, (0, 1)
TriuCells(cols) == Range(Drop1(triu_indices(cols)))

\* D after np.zeros and the two vectorised assignments (lines 63-75)
DBody(cols) ==
    [c \in Cells(cols) |->
        IF c \in TriuCells(cols) THEN J(c[1], c[2]) - J(c[1], c[2] - 1)
        ELSE IF c \in DiagCells(cols) THEN J(c[1], c[2])
        ELSE 0]

\* D[0, 1] = J(0, 1) - 2/pi and D[0, 0] = 2/pi (lines 78-79); the first
\* assignment indexes column 1, which a one-column D does not have
DSpecial(D0, cols) ==
    IF <<0, 1>> \notin Cells(cols)
    THEN [err |-> "IndexError", D |-> D0, written |-> {}]
    ELSE [err |-> "",
          D |-> [c \in Cells(cols) |->
                    IF c = <<0, 1>> THEN J(0, 1) - TwoOverPi
                    ELSE IF c = <<0, 0>> THEN TwoOverPi
                    ELSE D0[c]],
          written |-> {<<0, 1>>, <<0, 0>>}]

\* np.tensordot(IM, D, axes=(1, 1)): out[r, i] = sum_j IM[r, j] * D[i, j]
tensordot(rows, D, cols) ==
    [r \in 1..Len(rows) |->
        [i \in 1..cols |->
            SumSeq([j \in 1..cols |-> rows[r][j] * D[<<i - 1, j - 1>>]])]]

\* inv_IM[0] when the leading dimension is 1 (lines 84-85)
Flatten(rows) == IF Len(rows) = 1 THEN Array1(rows[1]) ELSE Array2(rows)

\* inv_IM / dr, elementwise, in fixed point
DivideBy(a, dr) ==
    [ndim |-> a.ndim,
     data |-> [r \in DOMAIN a.data |->
                  [k \in DOMAIN a.data[r] |-> a.data[r][k] \div dr]]]

\* a guard that lets every direction through
DirectionOkAny(direction) == TRUE

\* the direction guard of line 49
DirectionOk(direction) == direction = "inverse"

two_point_transform(IM, dr, direction) ==
    IF ~DirectionOk(direction)
    THEN [err |-> "ValueError", out |-> NoArray, cols |-> 0, D |-> <<>>,
          written |-> {}, work |-> <<>>, IM |-> IM]
    ELSE
    LET IM2  == atleast_2d(IM)
        rows == shape(IM2)[1]
        cols == shape(IM2)[2]
        D0   == DBody(cols)
        sp   == DSpecial(D0, cols)
        w0   == <<"atleast_2d", "zeros", "diag", "triu">>
    IN  IF sp.err # ""
        THEN [err |-> sp.err, out |-> NoArray, cols |-> cols, D |-> sp.D,
              written |-> DiagCells(cols) \cup TriuCells(cols),
              work |-> w0, IM |-> IM]
        ELSE LET inv  == tensordot(IM2.data, sp.D, cols)
                 flat == Flatten(inv)
             IN  [err |-> "", out |-> DivideBy(flat, dr), cols |-> cols,
                  D |-> sp.D,
                  written |-> DiagCells(cols) \cup TriuCells(cols)
                                  \cup sp.written,
                  work |-> w0 \o <<"special", "tensordot">>
                             \o (IF rows = 1 THEN <<"flatten">> ELSE <<>>)
                             \o <<"divide">>,
                  IM |-> IM]

-----------------------------------------------------------------------------
(* Floating-point quotients: exact fractions n/d in lowest terms with      *)
(* d > 0, and numpy's nan (0/0) and inf (x/0)                              *)

Num(n, d) ==
    LET g == Gcd(Abs(n), Abs(d))
        s == IF d < 0 THEN -1 ELSE 1
    IN  [k |-> "num", n |-> (s * n) \div g, d |-> (s * d) \div g]

Nan == [k |-> "nan", n |-> 0, d |-> 0]
Inf(sign) == [k |-> "inf", n |-> sign, d |-> 0]
One == Num(1, 1)

\* a / b for two finite numbers a = an/ad and b = bn/bd
Quot(a, b) ==
    IF b.n = 0
    THEN (IF a.n = 0 THEN Nan ELSE Inf(IF a.n > 0 THEN 1 ELSE -1))
    ELSE Num(a.n * b.d, a.d * b.n)

\* a / b under IEEE rules for nan and inf operands
FDiv(a, b) ==
    IF a.k = "nan" \/ b.k = "nan" THEN Nan
    ELSE IF a.k = "inf" THEN (IF b.k = "inf" THEN Nan
                             ELSE Inf(IF b.n < 0 THEN -a.n ELSE a.n))
    ELSE IF b.k = "inf" THEN Num(0, 1)
    ELSE Quot(a, b)

\* a + b and a - b for a finite integer offset b
FShift(a, b) == IF a.k = "num" THEN Num(a.n + b * a.d, a.d) ELSE a
FNeg(a) == IF a.k = "nan" THEN a ELSE [a EXCEPT !.n = -a.n]

FLess(a, b) == a.n * b.d < b.n * a.d

-----------------------------------------------------------------------------
(* abel/tools/circularize.py: residual and correction *)

\* aslice.sum(axis=1): a new array, the intensity of every radial sample
SumAxis1(aslice) == [r \in DOMAIN aslice |-> SumSeq(aslice[r])]

\* profile.argmax(): the first index of the maximum (1-based here)
argmax(profile) ==
    CHOOSE i \in DOMAIN profile :
        /\ \A j \in DOMAIN profile : profile[j] <= profile[i]
        /\ \A j \in 1..(i - 1) : profile[j] < profile[i]

\* UnivariateSpline(radial*scale, profile, s=0, ext=3) evaluated at x: the
\* interpolant passes through the knots and is constant beyond the ends
SplineEval(radial, scale, profile, x) ==
    LET L  == Len(radial)
        xs == [i \in 1..L |-> radial[i] * scale.n]     \* knots, times scale.d
        xd == x * scale.d
    IN  IF xd <= xs[1] THEN profile[1]
        ELSE IF xd >= xs[L] THEN profile[L]
        ELSE LET i == CHOOSE i \in 1..(L - 1) : xs[i] <= xd /\ xd < xs[i + 1]
             IN  profile[i] + ((profile[i + 1] - profile[i]) * (xd - xs[i]))
                                  \div (xs[i + 1] - xs[i])

\* a residual with the opposite sign: previous - newprof
residualFlipped(param, radial, profile, previous) ==
    [j \in DOMAIN radial |->
        previous[j]
            - SplineEval(radial, param.scale, profile, radial[j]) * param.amp]

\* residual(param, radial, profile, previous), lines 168-179
residual(param, radial, profile, previous) ==
    [j \in DOMAIN radial |->
        SplineEval(radial, param.scale, profile, radial[j]) * param.amp
            - previous[j]]

\* a view of the first angular column of slice k instead of a new array
CollapseView(slices, k) ==
    [v |-> [r \in DOMAIN slices[k] |-> slices[k][r][1]], base |-> k]

\* slices[k].sum(axis=1) as an object: its values, and the slice it is a
\* view of (0: it owns its memory)
Collapse(slices, k) == [v |-> SumAxis1(slices[k]), base |-> 0]

\* previous += delta: writes into the memory previous refers to
InPlaceAdd(prev, delta, slices) ==
    LET v2 == [j \in DOMAIN prev.v |-> prev.v[j] + delta[j]]
    IN  [previous |-> [prev EXCEPT !.v = v2],
         slices |-> IF prev.base = 0 THEN slices
                    ELSE [slices EXCEPT ![prev.base] =
                             [r \in DOMAIN @ |-> [@[r] EXCEPT ![1] = v2[r]]]]]

\* the initial guess handed to leastsq for the next slice, and the
\* variants that keep the first guess or the first reference
NextGuessFixed(fitted, guess) == guess
NextGuess(fitted, guess) == fitted

FitPar0 == [scale |-> One, amp |-> 1]

\* one iteration of the loop of lines 207-215 for slice k; fitted is what
\* leastsq returns for it
LsqStep(st, k, radial, fitted) ==
    LET profile == SumAxis1(st.slices[k])
        delta   == residual(fitted, radial, profile, st.previous.v)
        upd     == InPlaceAdd(st.previous, delta, st.slices)
    IN  [previous |-> upd.previous,
         fitpar   |-> NextGuess(fitted, st.fitpar),
         sf       |-> Append(st.sf, fitted.scale),
         slices   |-> upd.slices,
         log      |-> Append(st.log,
                        [slice |-> k, x0 |-> st.fitpar,
                         previous |-> st.previous.v, profile |-> profile,
                         fitted |-> fitted, delta |-> delta,
                         reference |-> upd.previous.v])]

RECURSIVE LsqLoop(_, _, _, _, _)
LsqLoop(st, k, last, radial, fits) ==
    IF k > last THEN st
    ELSE LsqLoop(LsqStep(st, k, radial, fits[k]), k + 1, last, radial, fits)

\* correction(slice_angles, slices, radial, method), lines 182-221; fits[k]
\* is the minimiser leastsq finds for slice k
correction(slice_angles, slices, radial, method, fits) ==
    LET n == Min(Len(slice_angles), Len(slices))        \* zip
    IN  IF method = "argmax"
        THEN LET pkpos == [k \in 1..n |-> argmax(SumAxis1(slices[k]))]
             IN  IF n = 0
                 THEN [err |-> "IndexError", sf |-> <<>>, slices |-> slices,
                       log |-> <<>>, work |-> <<>>]
                 ELSE [err |-> "",
                       sf |-> [k \in 1..n |->
                                 Quot(Num(radial[pkpos[1]], 1),
                                      Num(radial[pkpos[k]], 1))],
                       slices |-> slices, log |-> <<>>,
                       work |-> [i \in 1..(2 * n) |->
                                   IF i % 2 = 1 THEN "sum" ELSE "argmax"]
                                \o <<"divide">>]
        ELSE IF method = "lsq"
        THEN IF Len(slices) = 0
             THEN [err |-> "IndexError", sf |-> <<One>>, slices |-> slices,
                   log |-> <<>>, work |-> <<>>]
             ELSE LET st0 == [previous |-> Collapse(slices, 1),
                              fitpar |-> FitPar0, sf |-> <<One>>,
                              slices |-> slices, log |-> <<>>]
                      st  == LsqLoop(st0, 2, Max(n, 1), radial, fits)
                  IN  [err |-> "", sf |-> st.sf, slices |-> st.slices,
                       log |-> st.log,
                       work |-> <<"sum">> \o
                                [i \in 1..(4 * Len(st.log)) |->
                                   CASE i % 4 = 1 -> "sum"
                                     [] i % 4 = 2 -> "leastsq"
                                     [] i % 4 = 3 -> "residual"
                                     [] OTHER -> "iadd"]]
        ELSE [err |-> "ValueError", sf |-> <<>>, slices |-> slices,
              log |-> <<>>, work |-> <<>>]

-----------------------------------------------------------------------------
(* abel/tools/circularize.py: circularize *)

\* np.arctan2(X, Y) for integer offsets, in units in which pi is 2 and the
\* octants are linear in the offsets; the map to the true angle is
\* increasing and exact at the multiples of pi/2
arctan2(X, Y) ==
    IF X = 0 THEN (IF Y >= 0 THEN Num(0, 1) ELSE Num(2, 1))
    ELSE LET a == Abs(X)
             t == IF Y >= 0 THEN Num(a, a + Y) ELSE Num(a - 2 * Y, a - Y)
         IN  IF X > 0 THEN t ELSE FNeg(t)

\* radcorrspl(theta): a spline object holds its knots (angles) and the
\* values fitted there; it is evaluated at the last knot not above theta,
\* and (ext=3) at the boundary knot outside the fitted range
SplineCall(spl, theta) ==
    LET below == {i \in DOMAIN spl.angles : ~FLess(theta, spl.angles[i])}
    IN  IF below = {} THEN spl.values[1]
        ELSE spl.values[CHOOSE i \in below : \A j \in below : j <= i]

\* Y measured downwards from the origin row
RelYDown(row, origin) == row - origin[2]

\* Y = origin[1] - Y, line 153 (origin = (col//2, row//2))
RelY(row, origin) == origin[2] - row

\* X -= origin[0], line 152
RelX(col, origin) == col - origin[1]

\* ndimage.map_coordinates(IM, (rowcoord, colcoord)) at one output pixel:
\* linear interpolation between the four neighbours, 0 outside the image
map_coordinates(IM, rc, cc) ==
    LET rows == Len(IM)
        cols == Len(IM[1])
    IN  IF rc.k # "num" \/ cc.k # "num" THEN Num(0, 1)
        ELSE IF rc.n < 0 \/ cc.n < 0
                \/ rc.n > (rows - 1) * rc.d \/ cc.n > (cols - 1) * cc.d
        THEN Num(0, 1)
        ELSE LET r0 == rc.n \div rc.d
                 c0 == cc.n \div cc.d
                 a  == rc.n % rc.d
                 b  == cc.n % cc.d
                 px(r, c) == IF r < rows /\ c < cols THEN IM[r + 1][c + 1]
                             ELSE 0
             IN  Num((rc.d - a) * (cc.d - b) * px(r0, c0)
                       + a * (cc.d - b) * px(r0 + 1, c0)
                       + (rc.d - a) * b * px(r0, c0 + 1)
                       + a * b * px(r0 + 1, c0 + 1),
                     rc.d * cc.d)

\* circularize(IM, radcorrspl), lines 132-165: the source coordinates of
\* every output pixel and the resampled image
circularize(IM, radcorrspl) ==
    LET row    == Len(IM)
        col    == Len(IM[1])
        origin == <<col \div 2, row \div 2>>
        src(r, c) ==
            LET X     == RelX(c, origin)
                Y     == RelY(r, origin)
                theta == arctan2(X, Y)
                Xactual == FDiv(Num(X, 1), SplineCall(radcorrspl, theta))
                Yactual == FDiv(Num(Y, 1), SplineCall(radcorrspl, theta))
            IN  <<FShift(FNeg(Yactual), origin[2]),
                  FShift(Xactual, origin[1])>>
        coords == [r \in 1..row |-> [c \in 1..col |-> src(r - 1, c - 1)]]
    IN  [coords |-> coords,
         IMcirc |-> [r \in 1..row |-> [c \in 1..col |->
                        map_coordinates(IM, coords[r][c][1],
                                        coords[r][c][2])]],
         IM |-> IM]

-----------------------------------------------------------------------------
(* abel/benchmark.py: AbelTiming *)

\* a dict: its keys in insertion order and the list stored under each key
Dict(keys) == [keys |-> keys, val |-> [k \in Range(keys) |-> <<>>]]

DictDel(d, rm) ==
    [keys |-> SelectSeq(d.keys, LAMBDA k : k \notin rm),
     val  |-> [k \in Range(d.keys) \ rm |-> d.val[k]]]

DictAppend(d, k, v) == [d EXCEPT !.val[k] = Append(@, v)]

\* res['bs'], res['forward'], res['inverse'] as first built (lines 83-94)
BsKeys ==
    <<"basex_bs", "linbasex_bs", "onion_peeling_bs", "two_point_bs",
      "three_point_bs">>
ForwardKeys(cython_ext) ==
    <<"direct_Python", "hansenlaw">>
        \o (IF cython_ext THEN <<"direct_C">> ELSE <<>>)
InverseKeys(cython_ext) ==
    <<"basex", "basex(var)", "direct_Python", "hansenlaw", "linbasex",
      "onion_bordas", "onion_peeling", "two_point", "three_point">>
        \o (IF cython_ext THEN <<"direct_C">> ELSE <<>>)

\* m.split('(')[0]: the part of a name before its parenthesis
BeforeParen(m) == IF m = "basex(var)" THEN "basex" ELSE m

\* abel[:-3]: a basis key without its "_bs"
StripBs(key) ==
    CASE key = "basex_bs" -> "basex"
      [] key = "linbasex_bs" -> "linbasex"
      [] key = "onion_peeling_bs" -> "onion_peeling"
      [] key = "two_point_bs" -> "two_point"
      [] key = "three_point_bs" -> "three_point"
      [] OTHER -> key

\* method[:6] == 'direct' and method[7] == 'P'
IsDirect(method) == method \in {"direct_Python", "direct_C"}
IsDirectPython(method) == method = "direct_Python"

\* the selection is checked only when 'all' is not one of its entries
FilteredAlways(select) == TRUE
Filtered(select) == \A i \in DOMAIN select : select[i] # "all"

\* a validation that accepts every name
NoInvalid(select, inverse) == 0

\* the first selected name that is no key of res['inverse'] (0: none)
FirstInvalid(select, inverse) ==
    LET bad == {i \in DOMAIN select : select[i] \notin Range(inverse.keys)}
    IN  IF bad = {} THEN 0 ELSE CHOOSE i \in bad : \A j \in bad : i <= j

\* the keys the filter of lines 103-117 deletes from each table
RmDirection(d, select) == {k \in Range(d.keys) : k \notin Range(select)}
RmBs(d, select) ==
    LET select_b == {BeforeParen(select[i]) : i \in DOMAIN select}
    IN  {k \in Range(d.keys) : StripBs(k) \notin select_b}

DelLog(table, d, rm) ==
    LET gone == SelectSeq(d.keys, LAMBDA k : k \in rm)
    IN  [i \in DOMAIN gone |-> <<"del", table, gone[i]>>]

\* lines 129-139 for one size: every basis method gets a time or nan
RECURSIVE BsPass(_, _, _, _, _)
BsPass(st, i, keys, ni, n_max_bs) ==
    IF i > Len(keys) THEN st
    ELSE LET m == keys[i]
             run == ni <= n_max_bs
         IN  BsPass([st EXCEPT
                       !.bs = DictAppend(@, m, IF run THEN "time" ELSE "nan"),
                       !.basis = @ \cup {<<StripBs(m), run>>},
                       !.work = IF run THEN Append(@, <<"basis", m, ni>>)
                                ELSE @],
                    i + 1, keys, ni, n_max_bs)

\* a loop that runs every transform at every size
TimedAlways(method, basis, ni, n_max_slow) == TRUE

\* whether lines 145-174 run the transform for a method at size ni
Timed(method, basis, ni, n_max_slow) ==
    LET method_b == BeforeParen(method)
    IN  IF \E b \in basis : b[1] = method_b
        THEN <<method_b, TRUE>> \in basis
        ELSE IF IsDirect(method)
        THEN ~(IsDirectPython(method) /\ ni > n_max_slow)
        ELSE TRUE

RECURSIVE AbelPass(_, _, _, _, _, _)
AbelPass(st, cal, i, keys, ni, n_max_slow) ==
    IF i > Len(keys) THEN st
    ELSE LET m == keys[i]
             run == Timed(m, st.basis, ni, n_max_slow)
             d == DictAppend(st[cal], m, IF run THEN "time" ELSE "nan")
         IN  AbelPass([st EXCEPT
                         ![cal] = d,
                         !.work = IF run THEN Append(@, <<cal, m, ni>>)
                                  ELSE @],
                      cal, i + 1, keys, ni, n_max_slow)

\* the body of "for ni in n" (lines 120-174)
SizePass(st, ni, n_max_bs, n_max_slow) ==
    LET s0 == [st EXCEPT !.basis = {}]
        s1 == BsPass(s0, 1, st.bs.keys, ni, n_max_bs)
        s2 == AbelPass(s1, "forward", 1, st.forward.keys, ni, n_max_slow)
    IN  AbelPass(s2, "inverse", 1, st.inverse.keys, ni, n_max_slow)

RECURSIVE TimingLoop(_, _, _, _, _)
TimingLoop(st, i, n, n_max_bs, n_max_slow) ==
    IF i > Len(n) THEN st
    ELSE TimingLoop(SizePass(st, n[i], n_max_bs, n_max_slow), i + 1, n,
                    n_max_bs, n_max_slow)

\* AbelTiming.__init__, lines 19-178
AbelTiming(n, select, n_max_bs, n_max_slow, cython_ext) ==
    LET bs0  == Dict(BsKeys)
        fw0  == Dict(ForwardKeys(cython_ext))
        inv0 == Dict(InverseKeys(cython_ext))
        bad  == FirstInvalid(select, inv0)
    IN  IF Filtered(select) /\ bad # 0
        THEN [err |-> "ValueError", name |-> select[bad], work |-> <<>>,
              self |-> [none |-> TRUE]]
        ELSE
    LET f    == Filtered(select)
        rmF  == IF f THEN RmDirection(fw0, select) ELSE {}
        rmI  == IF f THEN RmDirection(inv0, select) ELSE {}
        rmB  == IF f THEN RmBs(bs0, select) ELSE {}
        st0  == [bs |-> DictDel(bs0, rmB), forward |-> DictDel(fw0, rmF),
                 inverse |-> DictDel(inv0, rmI), basis |-> {},
                 work |-> DelLog("forward", fw0, rmF)
                            \o DelLog("inverse", inv0, rmI)
                            \o DelLog("bs", bs0, rmB)]
        st   == TimingLoop(st0, 1, n, n_max_bs, n_max_slow)
    IN  [err |-> "", name |-> "", work |-> st.work,
         self |-> [n |-> n, fabel |-> st.forward.val, bs |-> st.bs.val,
                   iabel |-> st.inverse.val]]

-----------------------------------------------------------------------------
(* Inputs *)

\* intensity profiles of one row: empty, or a single unit sample
RowProfiles(cols) ==
    {[j \in 1..cols |-> IF j = p THEN 1 ELSE 0] : p \in 0..cols}

TPImages ==
    UNION {{Array1(row) : row \in RowProfiles(c)} : c \in 1..MaxCols}
    \cup UNION {{Array2(m) : m \in [1..r -> RowProfiles(c)]} :
                   r \in 1..MaxRows, c \in 1..MaxCols}

Directions == {"inverse", "forward", "both"}
GridSteps == {1, 2}

\* np.array_split(rows, n, axis=1): section k of the columns; the first
\* (total % n) sections hold one column more
SectionStart(total, n, k) == (k - 1) * (total \div n) + Min(k - 1, total % n)
SectionSize(total, n, k) == (total \div n) + (IF k <= total % n THEN 1 ELSE 0)

array_split(rows, n) ==
    LET total == Len(rows[1])
    IN  [k \in 1..n |->
            [r \in DOMAIN rows |->
                SubSeq(rows[r], SectionStart(total, n, k) + 1,
                       SectionStart(total, n, k) + SectionSize(total, n, k))]]

\* a polar image with one unit sample per angle: peaks[a] is its radial index
PolarImage(R, peaks) ==
    [r \in 1..R |-> [a \in DOMAIN peaks |-> IF peaks[a] = r THEN 1 ELSE 0]]

PolarImages(R) ==
    UNION {{PolarImage(R, peaks) : peaks \in [1..A -> 1..R]} : A \in 1..MaxAng}

\* the angle samples of a polar grid with A angles: -pi + 2 pi (a-1)/A
AngleSamples(A) == [a \in 1..A |-> Num(4 * (a - 1) - 2 * A, A)]

FAdd(a, b) == Num(a.n * b.d + b.n * a.d, a.d * b.d)

RECURSIVE FSum(_)
FSum(s) == IF s = <<>> THEN Num(0, 1) ELSE FAdd(Head(s), FSum(Tail(s)))

\* the mean of a run of angle samples (nan for an empty run)
FMean(s) == Quot(FSum(s), Num(Len(s), 1))

\* radial coordinate arrays: evenly spaced samples
RadialGrids == {<<0, 1>>, <<1, 2>>, <<0, 1, 2>>}

Methods == {"argmax", "lsq", "linear"}

\* the minimisers leastsq may return: (radial scale, amplitude)
FitResults == {[scale |-> Num(1, d), amp |-> a] : d \in {1, 2}, a \in {1, 2}}

\* images whose pixels are all different
Ramp(rows, cols, base) ==
    [r \in 1..rows |-> [c \in 1..cols |-> base + (r - 1) * cols + c]]

CircImages ==
    {Ramp(r, c, b) : r \in 1..MaxSide, c \in 1..MaxSide, b \in {0, 1}}

\* correction functions: fitted at -pi/2 and pi/2
CorrValues == {Num(1, 1), Num(2, 1), Num(1, 2)}
CorrFns ==
    {[angles |-> <<Num(-1, 1), Num(1, 1)>>, values |-> <<v1, v2>>] :
        v1 \in CorrValues, v2 \in CorrValues}

-----------------------------------------------------------------------------
(* The state machine *)

NoArgs == [none |-> TRUE]

Init ==
    /\ op = "idle"
    /\ args = NoArgs
    /\ caller = NoArgs
    /\ ret = NoArgs
    /\ work = <<>>

CallTwoPoint ==
    /\ op = "idle"
    /\ \E IM \in TPImages, dr \in GridSteps, direction \in Directions :
       \E r \in {two_point_transform(IM, dr, direction)} :
             /\ op' = "two_point_transform"
             /\ args' = [IM |-> IM, dr |-> dr, direction |-> direction]
             /\ caller' = [IM |-> r.IM]
             /\ ret' = [err |-> r.err, out |-> r.out, cols |-> r.cols,
                        D |-> r.D, written |-> r.written]
             /\ work' = r.work

\* the caller takes the result (or catches the exception)
Return ==
    /\ op # "idle"
    /\ op' = "idle"
    /\ args' = NoArgs
    /\ caller' = NoArgs
    /\ ret' = NoArgs
    /\ work' = <<>>

-----------------------------------------------------------------------------
(* abel/tools/circularize.py: circularize_image *)

\* ndimage.zoom(IM, zoom) for an integer factor: every pixel repeated
Zoom(IM, zoom) ==
    [r \in 1..(Len(IM) * zoom) |->
        [c \in 1..(Len(IM[1]) * zoom) |->
            IM[((r - 1) \div zoom) + 1][((c - 1) \div zoom) + 1]]]

\* ndimage.zoom(IMcirc, 1/zoom): back to the original size
Unzoom(IM, zoom) ==
    [r \in 1..(Len(IM) \div zoom) |->
        [c \in 1..(Len(IM[1]) \div zoom) |->
            IM[(r - 1) * zoom + 1][(c - 1) * zoom + 1]]]

\* abel.tools.center.center_image: the image moved by the offset of its
\* centre (shift columns), same shape, zeros moved in
center_image(IM, shift) ==
    [r \in DOMAIN IM |->
        [c \in DOMAIN IM[r] |-> IF c > shift THEN IM[r][c - shift] ELSE 0]]

\* abel.tools.polar.reproject_image_into_polar: the polar image found for
\* IM (one unit sample per angle, at radial index peaks[a]) and the two
\* coordinate arrays of the same shape
PolarRadial == <<0, 1>>

reproject_image_into_polar(IM, peaks) ==
    LET R == Len(PolarRadial)
        A == Len(peaks)
    IN  [polarIM |-> Array2(PolarImage(R, peaks)),
         radial_coord |-> [r \in 1..R |-> [a \in 1..A |-> PolarRadial[r]]],
         angle_coord |-> [r \in 1..R |-> AngleSamples(A)]]

\* the indices (1-based) of the radial samples strictly inside the range
Subr(radial, radial_range, zoom) ==
    {i \in DOMAIN radial : /\ radial[i] > radial_range[1] * zoom
                           /\ radial[i] < radial_range[2] * zoom}

\* s[mask]: the entries of s at the indices in keep, in order
RECURSIVE Masked(_, _)
Masked(s, keep) ==
    IF s = <<>> THEN <<>>
    ELSE Masked(SubSeq(s, 1, Len(s) - 1), keep)
            \o (IF Len(s) \in keep THEN <<s[Len(s)]>> ELSE <<>>)

\* polarIM[subr]: the mask selects along the first axis
CropArray(a, keep) ==
    IF a.ndim = 1 THEN Array1(Masked(a.data[1], keep))
    ELSE Array2(Masked(a.data, keep))

\* np.hsplit(v, n) of a 1-D array: equal sections, or ValueError
hsplitOk(total, n) == total % n = 0

\* UnivariateSpline(slice_angles, radcorr, s=smooth, ext=3)
UnivariateSpline(slice_angles, radcorr) ==
    [angles |-> slice_angles, values |-> radcorr]

CIFail(IM, err, by, w) ==
    [err |-> err, raisedBy |-> by, work |-> w, IM |-> IM, IMcirc |-> <<>>,
     nslices |-> 0, slice_angles |-> <<>>, radcorr |-> <<>>]

\* circularize_image, lines 83-129; shift, peaks and fits are what the
\* centring, the polar reprojection and leastsq find
circularize_image(IM, method, center, radial_range, zoom, nslices, inverse, shift, peaks, fits) ==
    LET IM1 == IF zoom > 1 THEN Zoom(IM, zoom) ELSE IM
        w1  == IF zoom > 1 THEN <<"zoom">> ELSE <<>>
        IM2 == IF center # "None" THEN center_image(IM1, shift) ELSE IM1
        w2  == w1 \o (IF center # "None" THEN <<"center">> ELSE <<>>)
        pol == reproject_image_into_polar(IM2, peaks)
        w3  == w2 \o <<"polar">>
        tp  == two_point_transform(T(pol.polarIM), 1, "inverse")
        w4  == w3 \o (IF inverse THEN <<"two_point">> ELSE <<>>)
    IN  IF inverse /\ tp.err # ""
        THEN CIFail(IM, tp.err, "two_point_transform", w4)
        ELSE
    LET polarIM0 == IF inverse THEN T(tp.out) ELSE pol.polarIM
        radial0  == [r \in DOMAIN pol.radial_coord |-> pol.radial_coord[r][1]]
        cropped  == radial_range # <<>>
        keep     == Subr(radial0, radial_range, zoom)
        polarIM  == IF cropped THEN CropArray(polarIM0, keep) ELSE polarIM0
        radial   == IF cropped THEN Masked(radial0, keep) ELSE radial0
        w5       == w4 \o (IF cropped THEN <<"crop">> ELSE <<>>)
        angles   == pol.angle_coord[1]
    IN  IF polarIM.ndim < 2
        THEN CIFail(IM, "IndexError", "array_split", w5)
        ELSE IF ~hsplitOk(Len(angles), nslices)
        THEN CIFail(IM, "ValueError", "hsplit", w5 \o <<"array_split">>)
        ELSE
    LET slices == array_split(polarIM.data, nslices)
        parts  == array_split(<<angles>>, nslices)
        slice_angles == [k \in 1..nslices |-> FMean(parts[k][1])]
        w7     == w5 \o <<"array_split", "hsplit", "mean">>
        corr   == correction(slice_angles, slices, radial, method, fits)
    IN  IF corr.err # ""
        THEN CIFail(IM, corr.err, "correction", w7 \o corr.work)
        ELSE
    LET radcorrspl == UnivariateSpline(slice_angles, corr.sf)
        circ   == circularize(IM2, radcorrspl)
        IMcirc == IF zoom > 1 THEN Unzoom(circ.IMcirc, zoom) ELSE circ.IMcirc
    IN  [err |-> "", raisedBy |-> "",
         work |-> w7 \o corr.work
                     \o <<"spline", "indices", "arctan2", "divide",
                          "map_coordinates">>
                     \o (IF zoom > 1 THEN <<"zoom">> ELSE <<>>),
         IM |-> IM, IMcirc |-> IMcirc, nslices |-> Len(slices),
         slice_angles |-> slice_angles, radcorr |-> corr.sf]

CallCorrection ==
    /\ op = "idle"
    /\ \E radial \in RadialGrids, method \in Methods :
       \E polarIM \in PolarImages(Len(radial)) :
       \E n \in 1..Min(Len(polarIM[1]), MaxSlices) :
       \E fits \in (IF method = "lsq" THEN [2..n -> FitResults]
                    ELSE {[k \in 2..n |-> FitPar0]}) :
       \E slices \in {array_split(polarIM, n)},
          angles \in {array_split(<<AngleSamples(Len(polarIM[1]))>>, n)} :
       \E slice_angles \in {[k \in 1..n |-> FMean(angles[k][1])]} :
       \E r \in {correction(slice_angles, slices, radial, method, fits)} :
             /\ op' = "correction"
             /\ args' = [slice_angles |-> slice_angles, slices |-> slices,
                         radial |-> radial, method |-> method]
             /\ caller' = [slice_angles |-> slice_angles,
                           slices |-> r.slices, radial |-> radial]
             /\ ret' = [err |-> r.err, sf |-> r.sf, log |-> r.log]
             /\ work' = r.work

CallCircularize ==
    /\ op = "idle"
    /\ \E IM \in CircImages, f \in CorrFns :
       \E r \in {circularize(IM, f)} :
             /\ op' = "circularize"
             /\ args' = [IM |-> IM, radcorrspl |-> f]
             /\ caller' = [IM |-> r.IM]
             /\ ret' = [err |-> "", IMcirc |-> r.IMcirc, coords |-> r.coords]
             /\ work' = <<"indices", "arctan2", "divide", "map_coordinates">>

\* the image handed to circularize_image
ImageInputs == {Ramp(2, 2, 1)}
Centers == {"None", "com"}
RadialRanges == {<<>>, <<0, 2>>}
Zooms == {1, 2}

CallCircularizeImage ==
    /\ op = "idle"
    /\ \E IM \in ImageInputs, method \in Methods, center \in Centers,
          radial_range \in RadialRanges, zoom \in Zooms,
          nslices \in 1..MaxSlices, inverse \in BOOLEAN,
          return_correction \in BOOLEAN, A \in 2..MaxAng :
       \E shift \in (IF center = "None" THEN {0} ELSE {0, 1}),
          peaks \in [1..A -> 1..Len(PolarRadial)] :
       \E fits \in (IF method = "lsq" /\ hsplitOk(A, nslices)
                    THEN [2..nslices -> FitResults]
                    ELSE {[k \in 2..nslices |-> FitPar0]}) :
       \E r \in {circularize_image(IM, method, center, radial_range, zoom,
                                    nslices, inverse, shift, peaks, fits)} :
             /\ op' = "circularize_image"
             /\ args' = [IM |-> IM, method |-> method, center |-> center,
                         radial_range |-> radial_range, zoom |-> zoom,
                         nslices |-> nslices, inverse |-> inverse,
                         return_correction |-> return_correction,
                         nangles |-> A]
             /\ caller' = [IM |-> r.IM]
             /\ ret' = [err |-> r.err, raisedBy |-> r.raisedBy,
                        IMcirc |-> r.IMcirc, nslices |-> r.nslices,
                        slice_angles |->
                            IF return_correction THEN r.slice_angles
                            ELSE <<>>,
                        radcorr |->
                            IF return_correction THEN r.radcorr ELSE <<>>]
             /\ work' = r.work

\* names a caller may put in select
SelectNames ==
    {"all", "two_point", "basex(var)", "direct_Python", "direct_C",
     "hansenlaw", "linbasex", "not_a_method"}

SeqsUpTo(S, m) == UNION {[1..k -> S] : k \in 0..m}

Sizes == {1, 2}

CallAbelTiming ==
    /\ op = "idle"
    /\ \E select \in SeqsUpTo(SelectNames, MaxSel),
          n \in SeqsUpTo(Sizes, MaxSizes),
          n_max_bs \in Sizes, n_max_slow \in Sizes, cython_ext \in BOOLEAN :
       \E r \in {AbelTiming(n, select, n_max_bs, n_max_slow, cython_ext)} :
             /\ op' = "AbelTiming"
             /\ args' = [n |-> n, select |-> select, n_max_bs |-> n_max_bs,
                         n_max_slow |-> n_max_slow,
                         cython_ext |-> cython_ext]
             /\ caller' = [n |-> n, select |-> select]
             /\ ret' = [err |-> r.err, name |-> r.name, self |-> r.self]
             /\ work' = r.work

NextTwoPoint == CallTwoPoint \/ Return

NextCirc == CallCorrection \/ CallCircularize \/ Return

NextImage == CallCircularizeImage \/ Return

SpecImage == Init /\ [][NextImage]_vars

SpecCirc == Init /\ [][NextCirc]_vars

NextTiming == CallAbelTiming \/ Return

SpecTiming == Init /\ [][NextTiming]_vars

Next ==
    \/ CallTwoPoint
    \/ CallCorrection
    \/ CallCircularize
    \/ CallCircularizeImage
    \/ CallAbelTiming
    \/ Return

Spec == Init /\ [][Next]_vars

SpecTwoPoint == Init /\ [][NextTwoPoint]_vars

-----------------------------------------------------------------------------
(* Claims about two_point_transform *)

TwoPointCalled == op = "two_point_transform"

\* C1: a call with any direction other than "inverse" raises ValueError, and
\* raises it before any array work: nothing is reshaped, no operator is
\* built, no dot product is computed and nothing is returned.
C1_DirectionGuard ==
    (TwoPointCalled /\ args.direction # "inverse")
        => /\ ret.err = "ValueError"
           /\ work = <<>>
           /\ ret.out = NoArray
           /\ ret.written = {}

C1_Witness ==
    /\ TwoPointCalled
    /\ args.direction = "forward"
    /\ args.IM.ndim = 2
    /\ ret.err = "ValueError"

\* C2: for every column count cols >= 1 the call builds a cols x cols
\* operator D whose entries strictly below the diagonal are zero, writing
\* only the diagonal, the strict upper triangle and the cells (0,0), (0,1).
C2_OperatorBuilt ==
    (TwoPointCalled /\ args.direction = "inverse")
        => /\ ret.err = ""
           /\ DOMAIN ret.D = Cells(ret.cols)
           /\ \A c \in Cells(ret.cols) : c[2] < c[1] => ret.D[c] = 0
           /\ ret.written \subseteq {c \in Cells(ret.cols) : c[2] >= c[1]}

\* C3: the transform preserves shape: a 2-D rows x cols input (rows = 1
\* included) gives a 2-D rows x cols output, a 1-D input of length cols a
\* 1-D output of length cols.
C3_ShapePreserved ==
    (TwoPointCalled /\ ret.err = "")
        => /\ ret.out.ndim = args.IM.ndim
           /\ shape(ret.out) = shape(args.IM)

-----------------------------------------------------------------------------
(* Claims about correction and circularize *)

CorrectionCalled == op = "correction"

\* C4: for every non-empty slice sequence and radial array the first scale
\* factor correction() returns is exactly 1, under "argmax" (also when the
\* first slice peaks at the radial sample 0) and under "lsq".
C4_FirstFactorOne ==
    (CorrectionCalled /\ args.method \in {"argmax", "lsq"})
        => /\ ret.err = ""
           /\ ret.sf[1] = One

\* C7: with a correction function that is 1 at every angle, circularize
\* reads every output pixel (row, col) from exactly (row, col): the output
\* has the input's shape and values.
C7_UnitCorrectionIsIdentity ==
    (op = "circularize"
        /\ \A i \in DOMAIN args.radcorrspl.values :
              args.radcorrspl.values[i] = One)
        => /\ DOMAIN ret.coords = DOMAIN args.IM
           /\ \A r \in DOMAIN args.IM :
                /\ DOMAIN ret.coords[r] = DOMAIN args.IM[r]
                /\ \A c \in DOMAIN args.IM[r] :
                     /\ ret.coords[r][c] = <<Num(r - 1, 1), Num(c - 1, 1)>>
                     /\ ret.IMcirc[r][c] = Num(args.IM[r][c], 1)

C7_Witness ==
    /\ op = "circularize"
    /\ args.radcorrspl.values = <<One, One>>
    /\ Len(args.IM) = 2
    /\ Len(args.IM[1]) = 3
    /\ ret.IMcirc[2][3] = Num(args.IM[2][3], 1)

\* C10: the "lsq" branch is a fold over slices 1..n-1: it starts from the
\* collapsed profile of slice 0 and the parameters (1, 1); the fit of slice
\* k starts from the parameters fitted for slice k-1 and compares with the
\* reference left by slice k-1; afterwards the reference is the old
\* reference plus the residual at the fitted parameters, and the scale
\* factor recorded for slice k is the fitted scale.
C10_LsqIsFold ==
    (CorrectionCalled /\ args.method = "lsq")
        => /\ ret.err = ""
           /\ Len(ret.log) = Len(args.slices) - 1
           /\ Len(ret.sf) = Len(args.slices)
           /\ ret.sf[1] = One
           /\ \A i \in DOMAIN ret.log :
                LET e == ret.log[i]
                    profile == SumAxis1(args.slices[i + 1])
                    before ==
                        IF i = 1 THEN SumAxis1(args.slices[1])
                        ELSE ret.log[i - 1].reference
                    res == residual(e.fitted, args.radial, profile, before)
                IN  /\ e.slice = i + 1
                    /\ e.x0 = (IF i = 1 THEN FitPar0
                               ELSE ret.log[i - 1].fitted)
                    /\ e.previous = before
                    /\ e.reference = [j \in DOMAIN before |->
                                         before[j] + res[j]]
                    /\ ret.sf[i + 1] = e.fitted.scale

C10_Witness ==
    /\ CorrectionCalled
    /\ args.method = "lsq"
    /\ Len(ret.log) = 2
    /\ ret.log[2].x0 # FitPar0
    /\ ret.log[2].x0 = ret.log[1].fitted
    /\ ret.log[2].previous # SumAxis1(args.slices[1])
    /\ ret.log[2].fitted # ret.log[1].fitted

\* the profile of slice k (1-based) rescaled radially and in amplitude by the
\* parameters fitted for it: newprof of residual()
FittedProfile(e, k) ==
    [j \in DOMAIN args.radial |->
        SplineEval(args.radial, e.fitted.scale, SumAxis1(args.slices[k]),
                   args.radial[j]) * e.fitted.amp]

\* C11: in the "lsq" branch the reference left after slice k is processed
\* equals the fitted (radially rescaled, amplitude-scaled) profile of slice
\* k alone: the reference it replaced, and with it slice 0 and every slice
\* before k, contributes nothing to what slice k+1 is compared against.
C11_ReferenceIsFittedProfile ==
    (CorrectionCalled /\ args.method = "lsq" /\ ret.err = "")
        => \A i \in DOMAIN ret.log :
              /\ ret.log[i].reference = FittedProfile(ret.log[i], i + 1)
              /\ i > 1 => ret.log[i].previous
                             = FittedProfile(ret.log[i - 1], i)

C11_Witness ==
    /\ CorrectionCalled
    /\ args.method = "lsq"
    /\ Len(ret.log) = 2
    /\ ret.log[1].previous # ret.log[1].reference
    /\ ret.log[2].previous # ret.log[2].reference
    /\ \E j \in DOMAIN ret.log[1].delta : ret.log[1].delta[j] # 0
    /\ ret.log[2].reference = FittedProfile(ret.log[2], 3)
    /\ ret.log[2].reference # SumAxis1(args.slices[3])

-----------------------------------------------------------------------------
(* Claims about circularize_image *)

ImageCalled == op = "circularize_image"

\* C5: with a method other than "argmax" or "lsq", circularize_image raises
\* the invalid-method error at call entry, before any array work: no zoom,
\* centering, polar reprojection, inverse transform, crop or slicing.
C5_InvalidMethodAtEntry ==
    (ImageCalled /\ args.method \notin {"argmax", "lsq"})
        => /\ ret.err = "ValueError"
           /\ ret.raisedBy = "correction"
           /\ work = <<>>

\* C8: for every nslices from 1 to the number of angular samples, whether
\* or not it divides that number, and for both methods, circularize_image
\* makes exactly nslices slices, nslices slice angles and nslices scale
\* factors.
C8_OnePerSlice ==
    (ImageCalled /\ args.method \in {"argmax", "lsq"}
        /\ args.nslices <= args.nangles)
        => /\ ret.err = ""
           /\ ret.nslices = args.nslices
           /\ args.return_correction
                => /\ Len(ret.slice_angles) = args.nslices
                   /\ Len(ret.radcorr) = args.nslices

-----------------------------------------------------------------------------
(* Claims about AbelTiming *)

TimingCalled == op = "AbelTiming"

Registry == Range(InverseKeys(args.cython_ext))
Selected == Range(args.select)
Unknown == {name \in Selected : name \notin Registry}

\* the select list passed validation and the three tables were filtered
FilteredBySelect ==
    /\ ret.err = ""
    /\ DOMAIN ret.self.fabel \subseteq Selected
    /\ DOMAIN ret.self.iabel \subseteq Selected
    /\ \A key \in DOMAIN ret.self.bs :
         \E name \in Selected : StripBs(key) = BeforeParen(name)

\* the invalid-selection error, before any deletion and any timing
RejectedAtOnce ==
    /\ ret.err = "ValueError"
    /\ ret.name \in Unknown
    /\ work = <<>>
    /\ ret.self = [none |-> TRUE]

\* C6 as stated: for every select list, an unknown name raises the
\* invalid-selection error before anything is deleted or timed; otherwise
\* the forward and inverse tables keep only selected keys and the basis
\* table only X_bs for the part X before '(' of a selected name.
C6_AnySelect ==
    TimingCalled
        => IF Unknown # {} THEN RejectedAtOnce ELSE FilteredBySelect

\* C6 amended: the above for every select list that does not contain 'all';
\* a select list that contains 'all' is not validated and nothing is
\* deleted: the three tables keep every key of the registry.
C6_SelectWithoutAll ==
    TimingCalled
        => IF "all" \notin Selected
           THEN (IF Unknown # {} THEN RejectedAtOnce ELSE FilteredBySelect)
           ELSE /\ ret.err = ""
                /\ DOMAIN ret.self.iabel = Registry
                /\ DOMAIN ret.self.fabel = Range(ForwardKeys(args.cython_ext))
                /\ DOMAIN ret.self.bs = Range(BsKeys)
                /\ \A i \in DOMAIN work : work[i][1] # "del"

C6_Witness ==
    /\ TimingCalled
    /\ args.select = <<"two_point">>
    /\ args.n # <<>>
    /\ ret.err = ""
    /\ DOMAIN ret.self.iabel = {"two_point"}
    /\ DOMAIN ret.self.fabel = {}
    /\ DOMAIN ret.self.bs = {"two_point_bs"}

\* the transforms that work from a precomputed basis set
UsesBasis(method) ==
    BeforeParen(method) \in
        {"basex", "linbasex", "onion_peeling", "two_point", "three_point"}

\* the sizes at which a basis set, or a transform, is skipped
BasisSkipped(ni) == ni > args.n_max_bs
TransformSkipped(method, ni) ==
    \/ UsesBasis(method) /\ ni > args.n_max_bs
    \/ method = "direct_Python" /\ ni > args.n_max_slow

Entry(skipped) == IF skipped THEN "nan" ELSE "time"

\* C12: after AbelTiming is constructed every result list of bs, fabel and
\* iabel has len(n) entries, entry i for size n[i]: nan for a basis set at a
\* size above n_max_bs, for a basis-set transform at such a size and for
\* direct_Python at a size above n_max_slow, a measured time otherwise; a
\* skipped basis or transform is not computed.
C12_OneEntryPerSize ==
    (TimingCalled /\ ret.err = "")
        => /\ ret.self.n = args.n
           /\ \A key \in DOMAIN ret.self.bs :
                ret.self.bs[key] =
                    [i \in DOMAIN args.n |-> Entry(BasisSkipped(args.n[i]))]
           /\ \A tab \in {ret.self.fabel, ret.self.iabel} :
                \A m \in DOMAIN tab :
                    tab[m] = [i \in DOMAIN args.n |->
                                Entry(TransformSkipped(m, args.n[i]))]
           /\ \A i \in DOMAIN work :
                /\ work[i][1] = "basis" => ~BasisSkipped(work[i][3])
                /\ work[i][1] \in {"forward", "inverse"}
                      => ~TransformSkipped(work[i][2], work[i][3])

C12_Witness ==
    /\ TimingCalled
    /\ ret.err = ""
    /\ args.select = <<"all">>
    /\ args.n = <<2, 1>>
    /\ args.n_max_bs = 1
    /\ args.n_max_slow = 1
    /\ ret.self.bs["two_point_bs"] = <<"nan", "time">>
    /\ ret.self.iabel["two_point"] = <<"nan", "time">>
    /\ ret.self.iabel["direct_Python"] = <<"nan", "time">>
    /\ ret.self.iabel["hansenlaw"] = <<"time", "time">>
    /\ <<"inverse", "two_point", 1>> \in Range(work)
    /\ <<"inverse", "two_point", 2>> \notin Range(work)

-----------------------------------------------------------------------------
(* Claims about all operations *)

\* C9: no operation mutates caller-owned data: after two_point_transform,
\* circularize, correction (both methods, the in-place accumulation of the
\* lsq branch included) and circularize_image, the arrays passed in hold
\* the values they held before the call.
C9_InputsUntouched ==
    /\ op \in {"two_point_transform", "circularize", "circularize_image"}
          => caller.IM = args.IM
    /\ op = "correction"
          => /\ caller.slices = args.slices
             /\ caller.radial = args.radial
             /\ caller.slice_angles = args.slice_angles

C9_Witness ==
    /\ CorrectionCalled
    /\ args.method = "lsq"
    /\ Len(ret.log) >= 1
    /\ ret.log[1].reference # ret.log[1].previous
    /\ caller.slices = args.slices

====
